---- MODULE Spec2Model ----
(***************************************************************************)
(* PasswordSettingsManager (src/PasswordSettingsManager.py): the in-memory *)
(* list of password settings, the retained remote payload, and the merge   *)
(* the manager runs when it loads the settings file or imports a blob.     *)
(*                                                                         *)
(* A PasswordSetting object is the record                                  *)
(*     [domain, mDate, fields, synced]                                     *)
(* (mDate a datetime, here a number; fields the opaque policy payload).    *)
(* A data set (one dict of a payload) is the record                        *)
(*     [domain, mDate, fields, deleted]                                    *)
(* whose mDate is a tagged value: a string in the "%Y-%m-%dT%H:%M:%S"      *)
(* format, or a datetime object where the code puts one.  deleted = FALSE  *)
(* stands for a dict without the key or with a false value (line 142 and   *)
(* line 175 test both in one expression).                                  *)
(***************************************************************************)
EXTENDS Integers, Sequences, FiniteSets, TLC

VARIABLES
    settings,      \* self.settings: sequence of PasswordSetting records
    remote_data,   \* self.remote_data: None, or the last decoded payload
    op,            \* name of the last call that returned ("init" before any)
    arg,           \* the argument of that call
    trace,         \* self.settings before that call and after each data set it processed
    ret            \* what that call returned (or the list it had built when it raised)

vars == <<settings, remote_data, op, arg, trace, ret>>

----------------------------------------------------------------------------
(* Bounds of the model. *)

MaxDate == 1        \* timestamps are 0..MaxDate
MaxEntries == 2     \* data sets in one payload (file or blob)

Domains == {"a.com", "b.com"}
Dates == 0..MaxDate

DefaultFields == 0  \* the policy fields PasswordSetting(domain) starts with
NoFields == -1      \* a data set that carries no policy field (a bare tombstone)
Fields == {DefaultFields, 1}

----------------------------------------------------------------------------
(* Values. *)

\* self.remote_data = None (line 22) against a decoded list (line 165).
None == [some |-> FALSE, entries |-> <<>>]
Some(entries) == [some |-> TRUE, entries |-> entries]

\* A str in the format "%Y-%m-%dT%H:%M:%S" and a datetime object.
IsoString(t) == [type |-> "str", t |-> t]
DateTime(t) == [type |-> "datetime", t |-> t]

\* datetime.strptime(s, "%Y-%m-%dT%H:%M:%S"): the datetime of a str; called on
\* anything else it raises TypeError (the callers test IsStr first).
IsStr(s) == s.type = "str"
strptime(s) == s.t

\* PasswordSetting(domain): a new setting, created now, never synced.
PasswordSetting(domain, now) ==
    [domain |-> domain, mDate |-> now, fields |-> DefaultFields, synced |-> FALSE]

\* setting.load_from_dict(data_set): every key the dict carries overwrites the
\* setting's field; the dict's mDate string is parsed.
load_from_dict(setting, data_set) ==
    [setting EXCEPT !.domain = data_set.domain,
                    !.mDate = strptime(data_set.mDate),
                    !.fields = IF data_set.fields = NoFields THEN @ ELSE data_set.fields]

\* setting.set_synced(value)
set_synced(setting, value) == [setting EXCEPT !.synced = value]

\* setting.to_dict(): the setting as a dict, mDate formatted as a string, no
\* 'deleted' key.
to_dict(setting) ==
    [domain |-> setting.domain, mDate |-> IsoString(setting.mDate),
     fields |-> setting.fields, deleted |-> FALSE]

\* list.pop(i) with TLA+'s 1-based index.
Pop(s, i) == SubSeq(s, 1, i - 1) \o SubSeq(s, i + 1, Len(s))

InList(x, s) == \E i \in 1..Len(s) : s[i] = x

DomainsOf(s) == {s[i].domain : i \in 1..Len(s)}

Last(s) == s[Len(s)]

----------------------------------------------------------------------------
(* update_from_export_data, lines 157-200. *)

\* ImportIsNewer with >= for > in line 174.
ImportIsNewerOrSame(data_set, setting) == strptime(data_set.mDate) >= setting.mDate

\* Line 174: the data set's mDate is later than the setting's modification date.
ImportIsNewer(data_set, setting) == strptime(data_set.mDate) > setting.mDate

\* IsDeleted without the test of the 'deleted' key.
IsDeletedIgnored(data_set) == FALSE

\* Line 175 (and line 142): 'deleted' in data_set and data_set['deleted'].
IsDeleted(data_set) == data_set.deleted

\* Lines 178-179: the setting takes the data set's values and counts as synced.
ImportOverwrite(setting, data_set) == set_synced(load_from_dict(setting, data_set), TRUE)

\* ImportInsert without set_synced(True) of line 189.
ImportInsertUnsynced(data_set, now) ==
    load_from_dict(PasswordSetting(data_set.domain, now), data_set)

\* Lines 187-189: the setting built for a domain the list does not hold.
ImportInsert(data_set, now) ==
    set_synced(load_from_dict(PasswordSetting(data_set.domain, now), data_set), TRUE)

\* Lines 169-185: the while loop over self.settings for one data set, from
\* index i on (1-based).  A pop leaves i in place, every other branch advances.
RECURSIVE UpdateScan(_, _, _, _, _)
UpdateScan(s, data_set, i, found, update_remote) ==
    IF i > Len(s)
    THEN [settings |-> s, found |-> found, update_remote |-> update_remote]
    ELSE IF s[i].domain = data_set.domain
         THEN IF ImportIsNewer(data_set, s[i])
              THEN IF IsDeleted(data_set)
                   THEN UpdateScan(Pop(s, i), data_set, i, TRUE, update_remote)
                   ELSE UpdateScan([s EXCEPT ![i] = ImportOverwrite(s[i], data_set)],
                                   data_set, i + 1, TRUE, update_remote)
              ELSE UpdateScan(s, data_set, i + 1, TRUE, TRUE)
         ELSE UpdateScan(s, data_set, i + 1, found, update_remote)

\* Lines 168-190: one iteration of the for loop over self.remote_data.
UpdateEntry(s, data_set, update_remote, now) ==
    LET r == UpdateScan(s, data_set, 1, FALSE, update_remote)
    IN  [settings |-> IF r.found THEN r.settings
                      ELSE Append(r.settings, ImportInsert(data_set, now)),
         update_remote |-> r.update_remote]

\* Lines 167-190: the for loop; the list before the loop and after each data set.
RECURSIVE UpdateLoop(_, _, _, _, _)
UpdateLoop(tr, data, k, update_remote, now) ==
    IF k > Len(data)
    THEN [trace |-> tr, update_remote |-> update_remote]
    ELSE LET r == UpdateEntry(Last(tr), data[k], update_remote, now)
         IN  UpdateLoop(Append(tr, r.settings), data, k + 1, r.update_remote, now)

\* SecondPass with > for >= in line 196.
SecondPassStrict(s, data) ==
    \E i \in 1..Len(s) :
        \/ \E j \in 1..Len(data) :
              /\ s[i].domain = data[j].domain
              /\ s[i].mDate > strptime(data[j].mDate)
        \/ ~ \E j \in 1..Len(data) : s[i].domain = data[j].domain

\* Lines 191-199: the second pass over self.settings; TRUE when it sets
\* update_remote.
SecondPass(s, data) ==
    \E i \in 1..Len(s) :
        \/ \E j \in 1..Len(data) :
              /\ s[i].domain = data[j].domain
              /\ s[i].mDate >= strptime(data[j].mDate)
        \/ ~ \E j \in 1..Len(data) : s[i].domain = data[j].domain

\* update_from_export_data that adds the payload to the snapshot it holds.
update_keeps_snapshot(data, now) ==
    LET r == UpdateLoop(<<settings>>, data, 1, FALSE, now)
        result == Last(r.trace)
    IN  /\ remote_data' = Some(remote_data.entries \o data)
        /\ settings' = result
        /\ op' = "update_from_export_data"
        /\ arg' = data
        /\ trace' = r.trace
        /\ ret' = (r.update_remote \/ SecondPass(result, data))

\* update_from_export_data(password, data) with a blob that decrypts to the
\* list `data`; datetime.now() reads `now`.
update_from_export_data(data, now) ==
    LET r == UpdateLoop(<<settings>>, data, 1, FALSE, now)
        result == Last(r.trace)
    IN  /\ remote_data' = Some(data)
        /\ settings' = result
        /\ op' = "update_from_export_data"
        /\ arg' = data
        /\ trace' = r.trace
        /\ ret' = (r.update_remote \/ SecondPass(result, data))

----------------------------------------------------------------------------
(* load_settings_from_file, lines 25-51. *)

\* What os.path.isfile, file.read, decrypt, decompress and json.loads give:
\* no file, or the dict {'settings': [...], 'synced': [...]}.
NoFile == [exists |-> FALSE, settings |-> <<>>, synced |-> <<>>]

\* Line 42: the data set's mDate is later than the setting's modification date.
FileIsNewer(data_set, setting) == strptime(data_set.mDate) > setting.mDate

\* FileOverwrite with set_synced(True), as the import has it, for line 44.
FileOverwriteSynced(setting, data_set, synced) ==
    set_synced(load_from_dict(setting, data_set), TRUE)

\* Lines 43-44: the setting takes the data set's values; it counts as synced
\* when the file lists its domain.
FileOverwrite(setting, data_set, synced) ==
    LET loaded == load_from_dict(setting, data_set)
    IN  set_synced(loaded, InList(loaded.domain, synced))

\* Lines 47-49: the setting built for a domain the list does not hold.
FileInsert(data_set, synced, now) ==
    LET loaded == load_from_dict(PasswordSetting(data_set.domain, now), data_set)
    IN  set_synced(loaded, InList(loaded.domain, synced))

\* Lines 36-45: the while loop over self.settings for one data set.
RECURSIVE LoadScan(_, _, _, _, _)
LoadScan(s, data_set, synced, i, found) ==
    IF i > Len(s)
    THEN [settings |-> s, found |-> found]
    ELSE IF s[i].domain = data_set.domain
         THEN IF FileIsNewer(data_set, s[i])
              THEN LoadScan([s EXCEPT ![i] = FileOverwrite(s[i], data_set, synced)],
                            data_set, synced, i + 1, TRUE)
              ELSE LoadScan(s, data_set, synced, i + 1, TRUE)
         ELSE LoadScan(s, data_set, synced, i + 1, found)

\* Lines 36-50: one iteration of the for loop over saved_settings['settings'].
LoadEntry(s, data_set, synced, now) ==
    LET r == LoadScan(s, data_set, synced, 1, FALSE)
    IN  IF r.found THEN r.settings
        ELSE Append(r.settings, FileInsert(data_set, synced, now))

\* Lines 35-50: the for loop; the list before the loop and after each data set.
RECURSIVE LoadLoop(_, _, _, _)
LoadLoop(tr, saved_settings, k, now) ==
    IF k > Len(saved_settings.settings)
    THEN tr
    ELSE LoadLoop(Append(tr, LoadEntry(Last(tr), saved_settings.settings[k],
                                       saved_settings.synced, now)),
                  saved_settings, k + 1, now)

\* load_settings_from_file(password) when the settings file holds `file`.
load_settings_from_file(file, now) ==
    LET tr == IF file.exists THEN LoadLoop(<<settings>>, file, 1, now) ELSE <<settings>>
    IN  /\ settings' = Last(tr)
        /\ op' = "load_settings_from_file"
        /\ arg' = file
        /\ trace' = tr
        /\ ret' = "None"
        /\ UNCHANGED remote_data

----------------------------------------------------------------------------
(* The in-memory operations, lines 72-131 and 202-209. *)

\* FirstOf that never finds the domain (no return in line 81).
FirstOfNone(s, domain) == {}

\* Lines 79-81: the first setting of the domain, as a set of at most one index.
FirstOf(s, domain) ==
    {i \in 1..Len(s) : s[i].domain = domain /\ \A j \in 1..(i - 1) : s[j].domain # domain}

\* get_setting(domain)
get_setting(domain, now) ==
    LET hit == FirstOf(settings, domain)
        setting == IF hit # {} THEN settings[CHOOSE i \in hit : TRUE]
                   ELSE PasswordSetting(domain, now)
    IN  /\ settings' = IF hit # {} THEN settings ELSE Append(settings, setting)
        /\ op' = "get_setting"
        /\ arg' = domain
        /\ trace' = <<settings, settings'>>
        /\ ret' = setting
        /\ UNCHANGED remote_data

\* SaveScan with pop(0) for pop(i) in line 95.
SaveScanPopFirst(s, domain, i) ==
    IF \E j \in 1..Len(s) : s[j].domain = domain THEN Tail(s) ELSE s

\* SaveScan without the pop of line 95.
SaveScanNoPop(s, domain, i) == s

\* Lines 93-95: enumerate(self.settings) with pop inside: the list iterator
\* moves on to the next index after every element, popped or not.
RECURSIVE SaveScan(_, _, _)
SaveScan(s, domain, i) ==
    IF i > Len(s) THEN s
    ELSE IF s[i].domain = domain
         THEN SaveScan(Pop(s, i), domain, i + 1)
         ELSE SaveScan(s, domain, i + 1)

\* save_setting(setting)
save_setting(setting) ==
    /\ settings' = Append(SaveScan(settings, setting.domain, 1), setting)
    /\ op' = "save_setting"
    /\ arg' = setting
    /\ trace' = <<settings, settings'>>
    /\ ret' = "None"
    /\ UNCHANGED remote_data

\* DeleteScan that stops after the first element (i is never advanced past a
\* setting of another domain).
DeleteScanFirstOnly(s, domain, i) ==
    IF s # <<>> /\ s[1].domain = domain THEN Tail(s) ELSE s

\* Lines 105-111: the while loop; a pop leaves i in place.
RECURSIVE DeleteScan(_, _, _)
DeleteScan(s, domain, i) ==
    IF i > Len(s) THEN s
    ELSE IF s[i].domain = domain
         THEN DeleteScan(Pop(s, i), domain, i)
         ELSE DeleteScan(s, domain, i + 1)

\* delete_setting(setting)
delete_setting(setting) ==
    /\ settings' = DeleteScan(settings, setting.domain, 1)
    /\ op' = "delete_setting"
    /\ arg' = setting
    /\ trace' = <<settings, settings'>>
    /\ ret' = "None"
    /\ UNCHANGED remote_data

\* set_all_settings_to_synced()
set_all_settings_to_synced ==
    /\ settings' = [i \in 1..Len(settings) |-> set_synced(settings[i], TRUE)]
    /\ op' = "set_all_settings_to_synced"
    /\ arg' = "None"
    /\ trace' = <<settings, settings'>>
    /\ ret' = "None"
    /\ UNCHANGED remote_data

IsSynced(setting) == setting.synced

\* get_settings_as_list that lists every domain as synced (no test of line 129).
get_settings_as_list_all_synced(s) ==
    [settings |-> [i \in 1..Len(s) |-> to_dict(s[i])],
     synced |-> [i \in 1..Len(s) |-> s[i].domain]]

\* get_settings_as_list()
get_settings_as_list(s) ==
    LET synced == SelectSeq(s, IsSynced)
    IN  [settings |-> [i \in 1..Len(s) |-> to_dict(s[i])],
         synced |-> [i \in 1..Len(synced) |-> synced[i].domain]]

\* save_settings_to_file(password): ret is what the call writes to the file.
save_settings_to_file ==
    /\ op' = "save_settings_to_file"
    /\ arg' = "None"
    /\ trace' = <<settings>>
    /\ ret' = get_settings_as_list(settings)
    /\ UNCHANGED <<settings, remote_data>>

----------------------------------------------------------------------------
(* get_export_data, lines 133-155. *)

\* Lines 144-146: the condition under which the tombstone data_set takes the
\* place of setting_dict.  The domain test compares setting_dict with itself.
Replaces(data_set, setting_dict) ==
    /\ setting_dict.domain = setting_dict.domain
    /\ strptime(data_set.mDate) > strptime(setting_dict.mDate)

\* Lines 143-147: the loop over settings_list for one tombstone.  strptime
\* raises TypeError on an mDate that is a datetime object (line 151 puts one).
RECURSIVE ReplaceScan(_, _, _)
ReplaceScan(settings_list, data_set, i) ==
    IF i > Len(settings_list)
    THEN [raised |-> FALSE, settings_list |-> settings_list]
    ELSE IF ~ IsStr(settings_list[i].mDate)
         THEN [raised |-> TRUE, settings_list |-> settings_list]
         ELSE IF Replaces(data_set, settings_list[i])
              THEN ReplaceScan([settings_list EXCEPT ![i] = data_set], data_set, i + 1)
              ELSE ReplaceScan(settings_list, data_set, i + 1)

\* Lines 149-153: the tombstone the export makes up for a domain.
Synthesized(domain, now) ==
    [domain |-> domain, mDate |-> DateTime(now), fields |-> NoFields, deleted |-> TRUE]

\* Lines 142-153: one iteration of the for loop over self.remote_data.
ExportEntry(settings_list, data_set, now) ==
    LET r == IF IsDeleted(data_set) THEN ReplaceScan(settings_list, data_set, 1)
             ELSE [raised |-> FALSE, settings_list |-> settings_list]
    IN  IF r.raised THEN r
        ELSE IF data_set.domain \notin DomainsOf(r.settings_list)
             THEN [r EXCEPT !.settings_list = Append(@, Synthesized(data_set.domain, now))]
             ELSE r

\* Lines 141-153: the for loop, left at the first exception.
RECURSIVE ExportLoop(_, _, _, _)
ExportLoop(settings_list, data, k, now) ==
    IF k > Len(data)
    THEN [raised |-> FALSE, settings_list |-> settings_list]
    ELSE LET r == ExportEntry(settings_list, data[k], now)
         IN  IF r.raised THEN r ELSE ExportLoop(r.settings_list, data, k + 1, now)

\* Line 155: json.dumps raises TypeError on a datetime object.
Serializable(settings_list) ==
    \A i \in 1..Len(settings_list) : IsStr(settings_list[i].mDate)

\* Lines 139-155: the list the call builds, and whether it raised instead of
\* returning the blob of that list.
ExportResult(s, remote, now) ==
    LET local == get_settings_as_list(s).settings
        r == IF remote.some /\ Len(remote.entries) > 0
             THEN ExportLoop(local, remote.entries, 1, now)
             ELSE [raised |-> FALSE, settings_list |-> local]
    IN  [raised |-> r.raised \/ ~ Serializable(r.settings_list),
         settings_list |-> r.settings_list]

\* get_export_data(password)
get_export_data(now) ==
    /\ op' = "get_export_data"
    /\ arg' = now
    /\ trace' = <<settings>>
    /\ ret' = ExportResult(settings, remote_data, now)
    /\ UNCHANGED <<settings, remote_data>>

----------------------------------------------------------------------------
(* The inputs and the calls explored. *)

\* Settings a caller can hand to save_setting and delete_setting.
Settings == [domain : Domains, mDate : Dates, fields : Fields, synced : BOOLEAN]

\* Data sets of a decoded payload: live ones and tombstones.
DataSets ==
    [domain : Domains, mDate : {IsoString(t) : t \in Dates}, fields : {1}, deleted : {FALSE}]
    \cup
    [domain : Domains, mDate : {IsoString(t) : t \in Dates}, fields : {NoFields},
     deleted : {TRUE}]

Payloads == UNION {[1..n -> DataSets] : n \in 0..MaxEntries}

SyncedLists ==
    {l \in UNION {[1..n -> Domains] : n \in 0..Cardinality(Domains)} :
        \A i, j \in 1..Len(l) : i # j => l[i] # l[j]}

Files == {NoFile} \cup [exists : {TRUE}, settings : Payloads, synced : SyncedLists]

\* The lists a manager holds before the call explored: what get_setting and
\* save_setting calls on a new manager (line 23) leave, one setting per
\* domain in either order, each with the constructor's policy fields, any
\* modification date and any synced flag.
StoredSettings ==
    [domain : Domains, mDate : Dates, fields : {DefaultFields}, synced : BOOLEAN]

Stores ==
    {s \in UNION {[1..n -> StoredSettings] : n \in 0..Cardinality(Domains)} :
        \A i, j \in 1..Len(s) : i # j => s[i].domain # s[j].domain}

\* The clock reading of a call that builds settings from data sets only:
\* load_from_dict overwrites the constructor's date, one reading stands for all.
InsertClock == {0}

Init ==
    /\ settings \in Stores
    /\ remote_data = None
    /\ op = "init"
    /\ arg = "None"
    /\ trace = <<settings>>
    /\ ret = "None"

Fresh == op = "init"

GetSetting == Fresh /\ \E domain \in Domains, now \in Dates : get_setting(domain, now)

SaveSetting == Fresh /\ \E setting \in Settings : save_setting(setting)

DeleteSetting ==
    Fresh /\ \E domain \in Domains : delete_setting(PasswordSetting(domain, 0))

SetAllSynced == Fresh /\ set_all_settings_to_synced

SaveToFile == Fresh /\ save_settings_to_file

LoadFromFile ==
    /\ Fresh
    /\ \E file \in Files, now \in InsertClock : load_settings_from_file(file, now)

\* The first import of a manager.
Import ==
    /\ Fresh
    /\ \E data \in Payloads, now \in InsertClock : update_from_export_data(data, now)

Export == Fresh /\ \E now \in Dates : get_export_data(now)

Next ==
    \/ GetSetting
    \/ SaveSetting
    \/ DeleteSetting
    \/ SetAllSynced
    \/ SaveToFile
    \/ LoadFromFile
    \/ Import
    \/ Export

\* One call of any operation on any stored list.
Spec == Init /\ [][Next]_vars

----------------------------------------------------------------------------
(* Synchronisation sessions: an import, local deletions, exports. *)

\* The blob of the last import arrives once more.
Reimport ==
    /\ op = "update_from_export_data"
    /\ \E now \in InsertClock : update_from_export_data(remote_data.entries, now)

\* Settings deleted after an import: the local deletions an export reports.
DeleteImported ==
    /\ remote_data.some
    /\ \E domain \in Domains : delete_setting(PasswordSetting(domain, 0))

\* An export against the retained snapshot.
ExportImported == remote_data.some /\ \E now \in Dates : get_export_data(now)

\* A second manager that holds the same list and no snapshot imports the blob
\* the first one has just exported.  get_export_data leaves the exporter's
\* list as it was, so after the call `settings` is the importer's list and
\* trace[1] still the exporter's.
ImportOwnExport ==
    /\ op = "get_export_data"
    /\ ~ remote_data.some
    /\ ~ ret.raised
    /\ \E now \in InsertClock : update_from_export_data(ret.settings_list, now)

NextSync ==
    \/ Import
    \/ Reimport
    \/ DeleteImported
    \/ Export
    \/ ExportImported
    \/ ImportOwnExport

SpecSync == Init /\ [][NextSync]_vars

----------------------------------------------------------------------------
(* What the claims read of the last call. *)

Imported == op = "update_from_export_data"
Loaded == op = "load_settings_from_file" /\ arg.exists
Exported == op = "get_export_data"

\* The data sets the last merge went through, the list before data set k and
\* the list after it.
Incoming == IF op = "load_settings_from_file" THEN arg.settings ELSE arg
Before(k) == trace[k]
After(k) == trace[k + 1]

Holds(s, domain) == domain \in DomainsOf(s)
RecordsOf(s, domain) == {i \in 1..Len(s) : s[i].domain = domain}

\* The setting carries the data set's payload.
EqualsPayload(setting, data_set) ==
    /\ setting.domain = data_set.domain
    /\ setting.mDate = strptime(data_set.mDate)
    /\ setting.fields = data_set.fields

----------------------------------------------------------------------------
(* C1: the list never holds two settings of one domain, whatever operation *)
(* ran and whatever data sets it was given.                                *)
C1_OneRecordPerDomain ==
    \A k \in 1..Len(trace) : \A d \in Domains : Cardinality(RecordsOf(trace[k], d)) <= 1

\* An import whose payload names one domain twice, a tombstone that removes
\* the local setting and a live data set that puts one back.
C1_Witness ==
    /\ Imported
    /\ Len(arg) = 2
    /\ arg[1].domain = arg[2].domain
    /\ arg[1].deleted /\ ~ arg[2].deleted
    /\ Holds(Before(1), arg[1].domain)
    /\ ~ Holds(After(1), arg[1].domain)
    /\ Holds(settings, arg[1].domain)
    /\ Len(settings) = 2

(* C2: in update_from_export_data, a data set later than the local setting *)
(* of its domain wins: once it is processed the setting carries its        *)
(* payload if it is live and the domain is gone if it is a tombstone.      *)
C2_NewerIncomingWins ==
    Imported =>
        \A k \in 1..Len(arg) : \A i \in 1..Len(Before(k)) :
            LET L == Before(k)[i]
                I == arg[k]
            IN  (L.domain = I.domain /\ strptime(I.mDate) > L.mDate) =>
                    IF I.deleted
                    THEN ~ Holds(After(k), I.domain)
                    ELSE /\ Holds(After(k), I.domain)
                         /\ \A j \in RecordsOf(After(k), I.domain) :
                                EqualsPayload(After(k)[j], I)

\* One import in which a later tombstone removes a setting and a later live
\* data set overwrites another.
C2_Witness ==
    /\ Imported
    /\ \E k \in 1..Len(arg) : \E i \in 1..Len(Before(k)) :
          /\ Before(k)[i].domain = arg[k].domain
          /\ strptime(arg[k].mDate) > Before(k)[i].mDate
          /\ arg[k].deleted
          /\ ~ Holds(After(k), arg[k].domain)
    /\ \E k \in 1..Len(arg) : \E i \in 1..Len(Before(k)) :
          /\ Before(k)[i].domain = arg[k].domain
          /\ strptime(arg[k].mDate) > Before(k)[i].mDate
          /\ ~ arg[k].deleted
          /\ Before(k)[i].fields # arg[k].fields
          /\ EqualsPayload(After(k)[i], arg[k])

(* C3: in update_from_export_data and in load_settings_from_file, a data   *)
(* set that is not later than the local setting of its domain (equal dates *)
(* included, tombstone or not) leaves that setting in the list exactly as  *)
(* it was: payload, modification date and synced flag.                     *)
C3_OlderOrSameIncomingLoses ==
    (Imported \/ Loaded) =>
        \A k \in 1..Len(Incoming) : \A i \in 1..Len(Before(k)) :
            LET L == Before(k)[i]
                I == Incoming[k]
            IN  (L.domain = I.domain /\ strptime(I.mDate) <= L.mDate) =>
                    /\ i <= Len(After(k))
                    /\ After(k)[i] = L

\* A file whose tombstone carries the very date of an unsynced local setting
\* and lists the domain as synced; the setting is still there.
C3_Witness ==
    /\ Loaded
    /\ \E k \in 1..Len(Incoming) : \E i \in 1..Len(Before(k)) :
          /\ Before(k)[i].domain = Incoming[k].domain
          /\ strptime(Incoming[k].mDate) = Before(k)[i].mDate
          /\ Incoming[k].deleted
          /\ ~ Before(k)[i].synced
          /\ InList(Incoming[k].domain, arg.synced)
          /\ After(k)[i] = Before(k)[i]

(* C4: importing one data set a second time with update_from_export_data   *)
(* leaves the list the first import left, for a live data set and for a    *)
(* tombstone, for a domain the list holds and for one it does not.         *)
C4_ImportTwiceIsImportOnce ==
    [][(Imported /\ Len(arg) = 1 /\ op' = "update_from_export_data" /\ arg' = arg)
          => settings' = settings]_vars

(* C5: a tombstone for a domain the list does not hold is dropped by       *)
(* update_from_export_data and by load_settings_from_file: once it is      *)
(* processed the list still holds no setting of that domain.               *)
C5_TombstoneOfUnknownDomainDropped ==
    (Imported \/ Loaded) =>
        \A k \in 1..Len(Incoming) :
            (Incoming[k].deleted /\ ~ Holds(Before(k), Incoming[k].domain))
                => ~ Holds(After(k), Incoming[k].domain)

(* C6: a manager B that holds the same list as a manager A and no snapshot *)
(* imports A's export: update_from_export_data returns False and the two   *)
(* lists are equal afterwards.                                             *)
C6_ExportImportRoundTrip ==
    [][(Exported /\ ~ remote_data.some /\ ~ ret.raised
            /\ op' = "update_from_export_data" /\ arg' = ret.settings_list)
          => (ret' = FALSE /\ settings' = settings)]_vars

\* Some setting is missing from the payload or later than a data set of its
\* domain in the payload.
RemoteLacks(s, data) ==
    \E i \in 1..Len(s) :
        \/ ~ \E j \in 1..Len(data) : data[j].domain = s[i].domain
        \/ \E j \in 1..Len(data) :
              /\ data[j].domain = s[i].domain
              /\ s[i].mDate > strptime(data[j].mDate)

(* C7: update_from_export_data returns True exactly when, after the        *)
(* import, some setting is local-only (no data set of its domain in the    *)
(* payload) or local-newer (later than its counterpart in the payload).    *)
C7_ReturnsTrueIffRemoteLacks ==
    Imported => (ret <=> RemoteLacks(settings, arg))

(* C8: in get_export_data a snapshot tombstone takes the place of an       *)
(* outgoing entry only when the entry is of the tombstone's own domain and *)
(* older; every other setting goes out as its own live data.               *)
C8_TombstoneReplacesOwnDomainOnly ==
    Exported =>
        \A i \in 1..Len(settings) :
            LET out == ret.settings_list[i]
            IN  \/ out = to_dict(settings[i])
                \/ /\ out.deleted
                   /\ out.domain = settings[i].domain
                   /\ IsStr(out.mDate)
                   /\ strptime(out.mDate) > settings[i].mDate

\* The entries of the outgoing list that get_export_data made up (line 151
\* dates them with the clock, every other entry carries a date string).
SynthesizedFor(settings_list, domain) ==
    {i \in 1..Len(settings_list) :
        /\ settings_list[i].domain = domain
        /\ settings_list[i].deleted
        /\ ~ IsStr(settings_list[i].mDate)}

(* C9: get_export_data makes up a tombstone for a domain exactly when the  *)
(* retained snapshot names the domain and the list holds no setting of it. *)
C9_SynthesizedIffLocallyDeleted ==
    Exported =>
        \A d \in Domains :
            (SynthesizedFor(ret.settings_list, d) # {})
                <=> (Holds(remote_data.entries, d) /\ ~ Holds(settings, d))

(* C10: a setting that update_from_export_data inserts for a domain the    *)
(* list did not hold, or overwrites from a later live data set, is synced; *)
(* after a live data set of an unknown domain the list holds exactly one   *)
(* setting of that domain.                                                 *)
C10_WinnerIsSynced ==
    Imported =>
        \A k \in 1..Len(arg) :
            LET I == arg[k]
                won == \/ ~ Holds(Before(k), I.domain)
                       \/ /\ ~ I.deleted
                          /\ \E i \in RecordsOf(Before(k), I.domain) :
                                strptime(I.mDate) > Before(k)[i].mDate
            IN  /\ won => \A j \in RecordsOf(After(k), I.domain) : After(k)[j].synced
                /\ (~ I.deleted /\ ~ Holds(Before(k), I.domain))
                       => Cardinality(RecordsOf(After(k), I.domain)) = 1

\* One import that inserts a live data set of an unknown domain and
\* overwrites an unsynced setting from a later live data set.
C10_Witness ==
    /\ Imported
    /\ \E k \in 1..Len(arg) :
          /\ ~ arg[k].deleted
          /\ ~ Holds(Before(k), arg[k].domain)
          /\ \E j \in RecordsOf(After(k), arg[k].domain) :
                After(k)[j].synced /\ EqualsPayload(After(k)[j], arg[k])
    /\ \E k \in 1..Len(arg) : \E i \in RecordsOf(Before(k), arg[k].domain) :
          /\ ~ arg[k].deleted
          /\ strptime(arg[k].mDate) > Before(k)[i].mDate
          /\ ~ Before(k)[i].synced
          /\ After(k)[i].synced

(* C11: every entry of the list get_export_data serializes carries its     *)
(* mDate as a date string, the tombstones it makes up included, so the     *)
(* call returns a blob in every state, also after a local deletion of a    *)
(* snapshot domain.                                                        *)
C11_ExportAlwaysSerializable ==
    Exported => (Serializable(ret.settings_list) /\ ~ ret.raised)

----------------------------------------------------------------------------
(* The settings file: a manager writes it, a new manager reads it back. *)

\* What the file holds after save_settings_to_file wrote `written`.
FileOf(written) ==
    [exists |-> TRUE, settings |-> written.settings, synced |-> written.synced]

\* The list is written after a save_setting call as well.
SaveEditedToFile == op = "save_setting" /\ save_settings_to_file

\* A new manager (lines 20-23: no setting, no snapshot) loads the file the
\* last call wrote.  Afterwards `settings` is the new manager's list; the
\* list of the manager that wrote the file is the `settings` of the state
\* before.
LoadSaved ==
    /\ op = "save_settings_to_file"
    /\ \E now \in InsertClock :
          LET file == FileOf(ret)
              tr == LoadLoop(<<<<>>>>, file, 1, now)
          IN  /\ settings' = Last(tr)
              /\ remote_data' = None
              /\ op' = "load_settings_from_file"
              /\ arg' = file
              /\ trace' = tr
              /\ ret' = "None"

NextStorage ==
    \/ SaveSetting
    \/ SaveToFile
    \/ SaveEditedToFile
    \/ LoadSaved

SpecStorage == Init /\ [][NextStorage]_vars

\* The (domain, policy fields, synced) triples of a list.
Triples(s) ==
    {[domain |-> s[i].domain, fields |-> s[i].fields, synced |-> s[i].synced] :
        i \in 1..Len(s)}

(* C12: a new manager that loads the file save_settings_to_file has just   *)
(* written holds the same (domain, policy fields, synced) triples as the   *)
(* manager that wrote it.                                                  *)
C12_StorageRoundTrip ==
    [][(op = "save_settings_to_file" /\ op' = "load_settings_from_file")
          => Triples(settings') = Triples(settings)]_vars

\* A file read back into an empty list that gives two settings, one synced
\* and one not, one of them with policy fields of its own.
C12_Witness ==
    /\ Loaded
    /\ trace[1] = <<>>
    /\ Len(settings) = 2
    /\ \E i, j \in 1..2 :
          /\ settings[i].synced /\ ~ settings[j].synced
          /\ settings[i].fields # settings[j].fields
    /\ arg.synced # <<>>

----------------------------------------------------------------------------
(* C13: in load_settings_from_file a setting inserted or overwritten from  *)
(* a data set is synced exactly when the file's synced list names its      *)
(* domain; a setting that is not overwritten (data set not later) keeps    *)
(* its synced flag, also when the list names its domain.                   *)
C13_SyncedFromFileOnlyOnOverwrite ==
    Loaded =>
        \A k \in 1..Len(Incoming) :
            LET I == Incoming[k]
                listed == InList(I.domain, arg.synced)
            IN  /\ ~ Holds(Before(k), I.domain) =>
                       \A j \in RecordsOf(After(k), I.domain) :
                           After(k)[j].synced = listed
                /\ \A i \in RecordsOf(Before(k), I.domain) :
                       IF strptime(I.mDate) > Before(k)[i].mDate
                       THEN After(k)[i].synced = listed
                       ELSE After(k)[i].synced = Before(k)[i].synced

\* One load that overwrites a synced setting whose domain the file does not
\* list, and leaves an unsynced setting whose domain it lists.
C13_Witness ==
    /\ Loaded
    /\ \E k \in 1..Len(Incoming) : \E i \in RecordsOf(Before(k), Incoming[k].domain) :
          /\ strptime(Incoming[k].mDate) > Before(k)[i].mDate
          /\ Before(k)[i].synced
          /\ ~ InList(Incoming[k].domain, arg.synced)
          /\ ~ After(k)[i].synced
    /\ \E k \in 1..Len(Incoming) : \E i \in RecordsOf(Before(k), Incoming[k].domain) :
          /\ strptime(Incoming[k].mDate) <= Before(k)[i].mDate
          /\ ~ Before(k)[i].synced
          /\ InList(Incoming[k].domain, arg.synced)
          /\ ~ After(k)[i].synced

----------------------------------------------------------------------------
(* The in-memory operations on any stored list, and a setting saved twice. *)

\* save_setting is called once more with the setting just saved.
SaveAgain == op = "save_setting" /\ save_setting(arg)

NextEdit ==
    \/ GetSetting
    \/ SaveSetting
    \/ SaveAgain
    \/ DeleteSetting
    \/ SetAllSynced

SpecEdit == Init /\ [][NextEdit]_vars

\* The settings of a list that are not of the domain, in the list's order.
RECURSIVE OthersOf(_, _)
OthersOf(s, domain) ==
    IF s = <<>> THEN <<>>
    ELSE IF s[1].domain = domain THEN OthersOf(Tail(s), domain)
         ELSE <<s[1]>> \o OthersOf(Tail(s), domain)

(* C14: get_setting(domain) returns the setting the list holds for the     *)
(* domain and leaves the list as it is; when the list holds none it        *)
(* appends one new default setting of the domain and returns it; the other *)
(* settings and the remote snapshot stay as they are.                      *)
C14_GetReturnsOrAppends ==
    [][op' = "get_setting" =>
          /\ remote_data' = remote_data
          /\ IF Holds(settings, arg')
             THEN /\ settings' = settings
                  /\ \E i \in 1..Len(settings) : settings[i] = ret'
                  /\ ret'.domain = arg'
             ELSE /\ settings' = Append(settings, ret')
                  /\ ret'.domain = arg'
                  /\ ret'.fields = DefaultFields
                  /\ ~ ret'.synced]_vars

\* get_setting for a domain the list lacks, next to a setting it holds.
C14_Witness ==
    /\ op = "get_setting"
    /\ Len(trace[1]) = 1
    /\ ~ Holds(trace[1], arg)
    /\ Len(settings) = 2
    /\ settings[1] = trace[1][1]
    /\ settings[2] = ret

(* C15: after save_setting(r) the list holds exactly one setting of r's    *)
(* domain, which is r; the settings of the other domains are as before;    *)
(* saving r once more leaves the list, contents and order, as it is.       *)
C15_SaveReplacesAndIsIdempotent ==
    [][op' = "save_setting" =>
          /\ Cardinality(RecordsOf(settings', arg'.domain)) = 1
          /\ \A i \in RecordsOf(settings', arg'.domain) : settings'[i] = arg'
          /\ OthersOf(settings', arg'.domain) = OthersOf(settings, arg'.domain)
          /\ (op = "save_setting" /\ arg = arg') => settings' = settings]_vars

\* The setting saved twice replaced an older one and stands behind another.
C15_Witness ==
    /\ op = "save_setting"
    /\ trace[1] = trace[2]
    /\ Len(settings) = 2
    /\ settings[2] = arg
    /\ arg.fields # DefaultFields

----------------------------------------------------------------------------
(* Calls whose file is missing or whose ciphertext does not decrypt.       *)

\* What a call is handed as ciphertext: a blob the password decrypts to its
\* plaintext, or one it does not decrypt.
Undecryptable == [ok |-> FALSE, data |-> <<>>]
Encrypted(data) == [ok |-> TRUE, data |-> data]

\* Crypter.decrypt under json.loads (lines 34 and 165): the plaintext, or
\* an exception.
decrypt(blob) == [raised |-> ~ blob.ok, data |-> blob.data]

\* raise that first forgets the remote snapshot.
raise_after_reset(call, error) ==
    /\ remote_data' = None
    /\ op' = "raised"
    /\ arg' = call
    /\ trace' = <<settings>>
    /\ ret' = error
    /\ UNCHANGED settings

\* An exception leaves the call where it is raised: nothing after that point
\* of the method runs.
raise(call, error) ==
    /\ op' = "raised"
    /\ arg' = call
    /\ trace' = <<settings>>
    /\ ret' = error
    /\ UNCHANGED <<settings, remote_data>>

\* Lines 164-165: the right-hand side is evaluated, decryption included,
\* before self.remote_data is assigned.
update_from_blob(blob, now) ==
    LET d == decrypt(blob)
    IN  IF d.raised THEN raise("update_from_export_data", "DecryptionError")
        ELSE update_from_export_data(d.data, now)

\* Lines 31-34: the file exists and is decrypted before the loop of line 35.
load_from_blob(blob, now) ==
    LET d == decrypt(blob)
    IN  IF d.raised THEN raise("load_settings_from_file", "DecryptionError")
        ELSE load_settings_from_file(d.data, now)

\* A manager as constructed or after its first import.
Armed == op \in {"init", "update_from_export_data"}

ImportUndecryptable ==
    Armed /\ \E now \in InsertClock : update_from_blob(Undecryptable, now)

LoadUndecryptable ==
    Armed /\ \E now \in InsertClock : load_from_blob(Undecryptable, now)

LoadMissing ==
    Armed /\ \E now \in InsertClock : load_settings_from_file(NoFile, now)

\* An import or a load of ciphertext that decrypts, through the same path.
ImportEncrypted ==
    /\ Fresh
    /\ \E data \in Payloads, now \in InsertClock :
           update_from_blob(Encrypted(data), now)

NextErrors ==
    \/ ImportEncrypted
    \/ ImportUndecryptable
    \/ LoadUndecryptable
    \/ LoadMissing

SpecErrors == Init /\ [][NextErrors]_vars

\* The call that was made found no file or raised on decryption.
Failed ==
    \/ op = "raised"
    \/ op = "load_settings_from_file" /\ ~ arg.exists

(* C17: when load_settings_from_file finds no file, or when decryption     *)
(* fails in load_settings_from_file or in update_from_export_data, the     *)
(* settings list and the remote snapshot are what they were before the     *)
(* call.                                                                   *)
C17_FailedCallChangesNothing ==
    [][Failed' => (settings' = settings /\ remote_data' = remote_data)]_vars

\* An import that does not decrypt, on a manager that holds settings and
\* the snapshot of an earlier import.
C17_Witness ==
    /\ op = "raised"
    /\ arg = "update_from_export_data"
    /\ ret = "DecryptionError"
    /\ settings # <<>>
    /\ remote_data.some
    /\ remote_data.entries # <<>>

----------------------------------------------------------------------------
\* The (domain, modification date, policy fields) payloads of a list.
PayloadsIn(s) ==
    {[domain |-> s[i].domain, mDate |-> s[i].mDate, fields |-> s[i].fields] :
        i \in 1..Len(s)}

\* What update_from_export_data leaves of the list the load started from,
\* given the file's data sets.
ImportedInstead ==
    Last(UpdateLoop(<<trace[1]>>, arg.settings, 1, FALSE, 0).trace)

(* C18: load_settings_from_file merges each data set by the rule           *)
(* update_from_export_data applies: from the same list and the same data   *)
(* sets both leave the same domains with the same payloads, and a file     *)
(* data set with deleted = true that is later than the setting of its      *)
(* domain removes that setting.                                            *)
C18_LoadMergesAsImport ==
    Loaded =>
        /\ PayloadsIn(settings) = PayloadsIn(ImportedInstead)
        /\ \A k \in 1..Len(Incoming) :
               \A i \in RecordsOf(Before(k), Incoming[k].domain) :
                   (Incoming[k].deleted /\ FileIsNewer(Incoming[k], Before(k)[i]))
                       => ~ Holds(After(k), Incoming[k].domain)

----------------------------------------------------------------------------
(* A manager as constructed imports a payload; any one call follows.       *)

\* Line 23: the manager holds no settings and no snapshot.
Constructed == Init /\ settings = <<>>

\* The data a call after the import is given: at most one data set.
ShortPayloads == {p \in Payloads : Len(p) <= 1}
ShortFiles == {f \in Files : Len(f.settings) <= 1}

ThenGet ==
    Imported /\ \E domain \in Domains, now \in Dates : get_setting(domain, now)

ThenSave == Imported /\ \E setting \in Settings : save_setting(setting)

ThenDelete ==
    Imported /\ \E domain \in Domains : delete_setting(PasswordSetting(domain, 0))

ThenSetAllSynced == Imported /\ set_all_settings_to_synced

ThenSaveToFile == Imported /\ save_settings_to_file

ThenLoad ==
    /\ Imported
    /\ \E file \in ShortFiles, now \in InsertClock :
           load_settings_from_file(file, now)

ThenImport ==
    /\ Imported
    /\ trace[1] = <<>>
    /\ \E data \in ShortPayloads, now \in InsertClock :
           update_from_export_data(data, now)

ThenExport == Imported /\ \E now \in Dates : get_export_data(now)

NextSnapshot ==
    \/ Import
    \/ ThenGet
    \/ ThenSave
    \/ ThenDelete
    \/ ThenSetAllSynced
    \/ ThenSaveToFile
    \/ ThenLoad
    \/ ThenImport
    \/ ThenExport

SpecSnapshot == Constructed /\ [][NextSnapshot]_vars

(* C19: the remote snapshot changes only in update_from_export_data, which *)
(* replaces it by the payload it decoded, keeping nothing of the snapshot  *)
(* before; get_setting, save_setting, delete_setting,                      *)
(* load_settings_from_file, save_settings_to_file, get_export_data and     *)
(* set_all_settings_to_synced leave it as it is.                           *)
C19_SnapshotReplacedOnlyByImport ==
    [][IF op' = "update_from_export_data"
       THEN remote_data' = Some(arg')
       ELSE remote_data' = remote_data]_vars

\* A second import, of an empty payload, after one that left settings and a
\* snapshot with data sets: the snapshot is the empty payload.
C19_Witness ==
    /\ Imported
    /\ trace[1] # <<>>
    /\ arg = <<>>
    /\ remote_data = Some(<<>>)

----------------------------------------------------------------------------
\* No two data sets of the payload are of the same domain.
DistinctDomains(data) ==
    \A i, j \in 1..Len(data) : i # j => data[i].domain # data[j].domain

(* C20: for a payload whose data sets are of pairwise distinct domains,    *)
(* update_from_export_data returns False exactly when the list is empty    *)
(* after the import; when a setting remains, the second pass (its date is  *)
(* not before its counterpart's, or it has no counterpart) makes the call  *)
(* return True.                                                            *)
C20_FalseIffEmptyAfterImport ==
    (Imported /\ DistinctDomains(arg)) =>
        /\ (ret = FALSE) <=> (settings = <<>>)
        /\ settings # <<>> => SecondPass(settings, arg)

\* Two tombstones of distinct domains remove both settings of the list; the
\* call returns False.
C20_Witness ==
    /\ Imported
    /\ DistinctDomains(arg)
    /\ Len(arg) = 2
    /\ Len(trace[1]) = 2
    /\ settings = <<>>
    /\ ret = FALSE

====
